---- MODULE Spec2Model ----
(***************************************************************************)
(* Model of api/translate.js: the serverless handler that rate-limits a    *)
(* caller, validates the phrase, calls the completion provider, posts a    *)
(* row to the record store and shapes the response.                        *)
(*                                                                         *)
(* A handler invocation runs in a slot r \in Slot; its locals live in the   *)
(* slot until it responds, then the slot is free for the next invocation.  *)
(* The handler runs synchronously between its awaits, so every action is   *)
(* one such segment: Receive (lines 24-70, up to the first await),         *)
(* BodyRead (58-70), ProviderReturns (96-130) and StoreReturns (132-150).  *)
(* sent is the response just written, with what its invocation saw, and    *)
(* arrival the rate limiter's decision just taken; both are history only,  *)
(* read by no handler, and Observe clears them before the next step.       *)
(* tally is history too: per bucket, the calls of limited() in the         *)
(* bucket's window and those that passed.                                  *)
(* Spec runs concurrent invocations of requests without an Origin header;  *)
(* CorsSpec runs one invocation at a time with any Origin and with         *)
(* ALLOWED_ORIGIN set or not; LiveSpec adds to a Spec of unnamed clients   *)
(* the fairness under which every await settles.                           *)
(* An outbound call either yields a complete response (status and body)    *)
(* or throws; "throws" stands for a rejection of the fetch itself or of    *)
(* the reading of its response (aiRes.text(), aiRes.json(), atRes.text()). *)
(***************************************************************************)
EXTENDS Integers, Sequences, FiniteSets, TLC

\* ---------------------------------------------------------------- bounds
MaxSlot == 2
MaxCount == 2
MaxNow == 120000
RATE_LIMIT_PER_MIN == 1

\* ------------------------------------------------------------- constants
windowMs == 60000
MODEL == "gpt-4o-mini"
required == {"OPENAI_API_KEY", "AIRTABLE_TOKEN", "AIRTABLE_BASE_ID", "AIRTABLE_TABLE_ID"}

\* process.env: complete, without the provider's key, without a store setting, empty
Environments ==
  {required, required \ {"OPENAI_API_KEY"}, required \ {"AIRTABLE_TABLE_ID"}, {}}

\* process.env of a deployment that may also set ALLOWED_ORIGIN
CorsEnvironments ==
  {required, required \cup {"ALLOWED_ORIGIN"}, {"ALLOWED_ORIGIN"}}

\* the value ALLOWED_ORIGIN holds when the deployment sets it, and the fallback of line 9
ConfiguredOrigin == "https://hr.example"
DefaultOrigin == "https://unfilter-the-hr.vercel.app"

\* the Origin header of a request: none, the configured one, somebody else's
NoOrigin == ""
ForeignOrigin == "https://evil.example"
Origins == {NoOrigin, ConfiguredOrigin, ForeignOrigin}

Slot == 1..MaxSlot
Methods == {"POST", "OPTIONS", "GET"}
TickSteps == {windowMs}

\* ------------------------------------------------------------- JS values
Undefined == [t |-> "undefined", s |-> <<>>, n |-> 0]
Num(k) == [t |-> "number", s |-> <<>>, n |-> k]
Str(q) == [t |-> "string", s |-> q, n |-> 0]

\* !v of JavaScript, on the values above
Falsy(v) ==
  \/ v.t = "undefined"
  \/ v.t = "string" /\ v.s = <<>>
  \/ v.t = "number" /\ v.n = 0

TypeofString(v) == v.t = "string"

IsSpace(c) == c = " "

RECURSIVE TrimStart(_)
TrimStart(q) ==
  IF q # <<>> /\ IsSpace(Head(q)) THEN TrimStart(Tail(q)) ELSE q

RECURSIVE TrimEnd(_)
TrimEnd(q) ==
  IF q # <<>> /\ IsSpace(q[Len(q)]) THEN TrimEnd(SubSeq(q, 1, Len(q) - 1)) ELSE q

\* String.prototype.trim
Trim(q) == TrimEnd(TrimStart(q))

\* ---------------------------------------------------------------- inputs
\* body.phrase: absent, a number, or a string
PhraseValues ==
  {Undefined, Num(7), Str(<<>>), Str(<<" ">>), Str(<<"x">>)}

\* req.body as the platform hands it over: not populated, or a parsed object
ReqBodies == {[t |-> "undefined", phrase |-> Undefined]}
             \cup {[t |-> "object", phrase |-> v] : v \in PhraseValues}

\* the raw text readBody resolves with, by what JSON.parse makes of it:
\* '' , not JSON, 'null', a JSON number, or a JSON object
RawBodies ==
  {[k |-> "empty", phrase |-> Undefined],
   [k |-> "garbage", phrase |-> Undefined],
   [k |-> "null", phrase |-> Undefined],
   [k |-> "number", phrase |-> Undefined]}
  \cup {[k |-> "object", phrase |-> v] : v \in PhraseValues}

\* a request: its method and req.body (only a POST carries a body here)
Requests ==
  {[method |-> "POST", body |-> b] : b \in ReqBodies}
  \cup {[method |-> m, body |-> [t |-> "undefined", phrase |-> Undefined]] : m \in Methods \ {"POST"}}

\* 'unknown', the fallback identifier
unknown == <<"u", "n", "k", "n", "o", "w", "n">>

\* x-forwarded-for after split(','): no header, or the list of its elements
ForwardedFor == {<<>>, << <<" ", "a", " ">>, <<"b">> >>, << <<" ">> >>}
\* req.socket?.remoteAddress: the empty sequence when it is not available
RemoteAddresses == {<<>>, <<"a">>}

\* what the provider's JSON holds at choices[0].message.content:
\* nothing, whitespace, or text between whitespace
Contents == {Undefined, Str(<<" ">>), Str(<<" ", "y">>)}

\* the provider fetch throws, or yields a response: its ok flag and its body
ProviderOutcomes ==
  {[kind |-> "throw", ok |-> FALSE, content |-> Undefined]}
  \cup {[kind |-> "response", ok |-> FALSE, content |-> c] : c \in {Undefined, Str(<<" ", "y">>)}}
  \cup {[kind |-> "response", ok |-> TRUE, content |-> c] : c \in Contents}

StoreOutcomes ==
  {[kind |-> "throw", ok |-> FALSE],
   [kind |-> "response", ok |-> FALSE],
   [kind |-> "response", ok |-> TRUE]}

NoCall == [kind |-> "none", ok |-> FALSE, content |-> Undefined]
NoStore == [kind |-> "none", ok |-> FALSE]

\* the request body as the handler came to know it
BodyUnread == [k |-> "unread", phrase |-> Undefined]
BodyUnparseable == [k |-> "unparseable", phrase |-> Undefined]
BodyPhrase(v) == [k |-> "phrase", phrase |-> v]

\* ------------------------------------------------------------- responses
NoAirtable == [present |-> FALSE, ok |-> FALSE]
Airtable(b) == [present |-> TRUE, ok |-> b]

NoRes ==
  [status |-> 0, error |-> "", translation |-> Undefined, model |-> "", airtable |-> NoAirtable]

ErrorRes(code, msg) ==
  [status |-> code, error |-> msg, translation |-> Undefined, model |-> "", airtable |-> NoAirtable]

\* a handler that reports the store write as done without looking at its status
OkRes_AlwaysOk(tr, b) ==
  [status |-> 200, error |-> "", translation |-> tr, model |-> MODEL, airtable |-> Airtable(TRUE)]

\* lines 135-139 and 143-147
OkRes(tr, b) ==
  [status |-> 200, error |-> "", translation |-> tr, model |-> MODEL, airtable |-> Airtable(b)]

NoBucket == [count |-> 0, reset |-> 0]

VARIABLES now, env, buckets, pc, method, origin, allowOrigin, over, phrase, aiRes,
          translation, record, provCalls, storeCalls, arrival, sent, tally

vars == <<now, env, buckets, pc, method, origin, allowOrigin, over, phrase, aiRes,
          translation, record, provCalls, storeCalls, arrival, sent, tally>>

locals == <<method, origin, allowOrigin, over, phrase, aiRes, translation, record,
            provCalls, storeCalls>>

\* ------------------------------------------------------------------ CORS
\* line 9
ALLOWED_ORIGIN == IF "ALLOWED_ORIGIN" \in env THEN ConfiguredOrigin ELSE DefaultOrigin

\* a handler that echoes the Origin of the request when there is one
AccessControlAllowOrigin_Reflect(reqOrigin) ==
  IF reqOrigin # NoOrigin THEN reqOrigin ELSE ALLOWED_ORIGIN

\* line 26: the header set on the response of a request sent from reqOrigin
AccessControlAllowOrigin(reqOrigin) == ALLOWED_ORIGIN

\* --------------------------------------------------------- rate limiter
\* a limiter whose window already ends when now reaches the reset time
limitedRec_ResetAtBoundary(key) ==
  LET rec0 == IF key \in DOMAIN buckets THEN buckets[key]
              ELSE [count |-> 0, reset |-> now + windowMs]
      rec1 == IF now >= rec0.reset THEN [count |-> 0, reset |-> now + windowMs] ELSE rec0
  IN  [rec1 EXCEPT !.count = @ + 1]

\* a limiter that starts the wait over whenever it turns a request away
limitedRec_ExtendWhenOver(key) ==
  LET rec0 == IF key \in DOMAIN buckets THEN buckets[key]
              ELSE [count |-> 0, reset |-> now + windowMs]
      rec1 == IF now > rec0.reset THEN [count |-> 0, reset |-> now + windowMs] ELSE rec0
      rec2 == [rec1 EXCEPT !.count = @ + 1]
  IN  IF rec2.count > RATE_LIMIT_PER_MIN THEN [rec2 EXCEPT !.reset = now + windowMs] ELSE rec2

\* lines 15-18: the bucket of key after this call
limitedRec(key) ==
  LET rec0 == IF key \in DOMAIN buckets THEN buckets[key]
              ELSE [count |-> 0, reset |-> now + windowMs]
      rec1 == IF now > rec0.reset THEN [count |-> 0, reset |-> now + windowMs] ELSE rec0
  IN  [rec1 EXCEPT !.count = @ + 1]

\* line 20
limited(key) == limitedRec(key).count > RATE_LIMIT_PER_MIN

\* a write that is lost when another invocation is under way: the bucket keeps the
\* value it had before this call
bucketsAfter_LostUpdate(key) ==
  [k \in DOMAIN buckets \cup {key} |->
     IF k = key /\ ~(key \in DOMAIN buckets /\ \E r \in Slot : pc[r] # "idle")
       THEN limitedRec(key) ELSE buckets[k]]

\* a handler that checks the settings before it counts: a request it is going to
\* answer 500 for a missing setting leaves the buckets alone
bucketsAfter_SettingsFirst(key) ==
  IF required \ env # {} THEN buckets
  ELSE [k \in DOMAIN buckets \cup {key} |-> IF k = key THEN limitedRec(key) ELSE buckets[k]]

\* one record object shared by all the keys: a write through one key shows in
\* every bucket
bucketsAfter_SharedRecord(key) ==
  [k \in DOMAIN buckets \cup {key} |-> limitedRec(key)]

\* line 19
bucketsAfter(key) ==
  [k \in DOMAIN buckets \cup {key} |-> IF k = key THEN limitedRec(key) ELSE buckets[k]]

\* an identifier taken from the header as it comes, untrimmed
ClientIp_NoTrim(xff, remote) ==
  LET first == IF xff = <<>> THEN <<>> ELSE xff[1]
  IN  IF first # <<>> THEN first ELSE IF remote # <<>> THEN remote ELSE unknown

\* history: the requests of key the limiter saw, and those it let pass, in the
\* window key's bucket is in once this request is counted
tallyAfter(key) ==
  LET fresh == key \notin DOMAIN buckets \/ now > buckets[key].reset
      old == IF fresh THEN [seen |-> 0, passed |-> 0] ELSE tally[key]
      new == [seen |-> old.seen + 1,
              passed |-> old.passed + IF limited(key) THEN 0 ELSE 1]
  IN  [k \in DOMAIN tally \cup {key} |-> IF k = key THEN new ELSE tally[k]]

\* req.headers['x-forwarded-for']?.split(',')[0]?.trim() || remoteAddress || 'unknown'
ClientIp(xff, remote) ==
  LET first == IF xff = <<>> THEN <<>> ELSE Trim(xff[1])
  IN  IF first # <<>> THEN first ELSE IF remote # <<>> THEN remote ELSE unknown

\* a configuration check that looks at the provider's key only
missing_ProviderKeyOnly == {"OPENAI_API_KEY"} \ env

\* lines 45-46
missing == required \ env

\* ------------------------------------------------------------ validation
\* JSON.parse(raw || '{}') followed by json.phrase
ParsePhrase(raw) ==
  CASE raw.k = "empty"   -> [threw |-> FALSE, phrase |-> Undefined]
    [] raw.k = "garbage" -> [threw |-> TRUE, phrase |-> Undefined]
    [] raw.k = "null"    -> [threw |-> TRUE, phrase |-> Undefined]
    [] raw.k = "number"  -> [threw |-> FALSE, phrase |-> Undefined]
    [] raw.k = "object"  -> [threw |-> FALSE, phrase |-> raw.phrase]

\* a phrase check that forgets the type test
InvalidPhrase_NoTypeCheck(v) == Falsy(v)

\* !phrase || typeof phrase !== 'string'
InvalidPhrase(v) == Falsy(v) \/ ~TypeofString(v)

\* a completion taken as it comes, untrimmed
Translation_NoTrim(content) ==
  IF content.t = "string" THEN Str(content.s) ELSE Undefined

\* aiJson?.choices?.[0]?.message?.content?.trim()
Translation(content) ==
  IF content.t = "string" THEN Str(Trim(content.s)) ELSE Undefined

\* no store fetch issued
NoRecord == [Phrase |-> Undefined, Translation |-> Undefined, Model |-> "", Source |-> ""]

\* lines 117-128: the record the store fetch carries
Row(r, tr) ==
  [Phrase |-> phrase[r], Translation |-> tr, Model |-> MODEL, Source |-> "webapp"]

NoSent ==
  [method |-> "", origin |-> NoOrigin, allowOrigin |-> "", over |-> FALSE, body |-> BodyUnread, aiRes |-> NoCall, record |-> NoRecord,
   atRes |-> NoStore, provCalls |-> 0, storeCalls |-> 0, res |-> NoRes]

NoArrival ==
  [xff |-> <<>>, remote |-> <<>>, key |-> <<>>, at |-> 0, had |-> FALSE, before |-> NoBucket, after |-> NoBucket,
   over |-> FALSE]

\* a freshly loaded module: no bucket, no invocation
Start ==
  /\ now = 0
  /\ buckets = << >>
  /\ pc = [r \in Slot |-> "idle"]
  /\ method = [r \in Slot |-> ""]
  /\ origin = [r \in Slot |-> NoOrigin]
  /\ allowOrigin = [r \in Slot |-> ""]
  /\ over = [r \in Slot |-> FALSE]
  /\ phrase = [r \in Slot |-> Undefined]
  /\ aiRes = [r \in Slot |-> NoCall]
  /\ translation = [r \in Slot |-> Undefined]
  /\ provCalls = [r \in Slot |-> 0]
  /\ storeCalls = [r \in Slot |-> 0]
  /\ record = [r \in Slot |-> NoRecord]
  /\ arrival = NoArrival
  /\ sent = NoSent
  /\ tally = << >>

Init == env \in Environments /\ Start

CorsInit == env \in CorsEnvironments /\ Start

\* nothing written is waiting to be observed
Quiet == sent = NoSent /\ arrival = NoArrival

\* the invocation in slot r returns: its locals are gone, the slot is free
Release(r) ==
  /\ pc' = [pc EXCEPT ![r] = "idle"]
  /\ method' = [method EXCEPT ![r] = ""]
  /\ origin' = [origin EXCEPT ![r] = NoOrigin]
  /\ allowOrigin' = [allowOrigin EXCEPT ![r] = ""]
  /\ over' = [over EXCEPT ![r] = FALSE]
  /\ phrase' = [phrase EXCEPT ![r] = Undefined]
  /\ aiRes' = [aiRes EXCEPT ![r] = NoCall]
  /\ translation' = [translation EXCEPT ![r] = Undefined]
  /\ record' = [record EXCEPT ![r] = NoRecord]
  /\ provCalls' = [provCalls EXCEPT ![r] = 0]
  /\ storeCalls' = [storeCalls EXCEPT ![r] = 0]

\* res.status(code).json(body) / .end(), after which the invocation returns
Respond(r, m, org, hdr, o, b, ai, at, response) ==
  /\ sent' = [method |-> m, origin |-> org, allowOrigin |-> hdr, over |-> o, body |-> b, aiRes |-> ai, record |-> record[r],
              atRes |-> at, provCalls |-> provCalls[r], storeCalls |-> storeCalls[r], res |-> response]
  /\ Release(r)

\* a handler that issues the provider fetch before it checks the phrase
ValidateAndCall_CallFirst(r, m, org, hdr, o, v) ==
  IF InvalidPhrase(v)
    THEN /\ sent' = [method |-> m, origin |-> org, allowOrigin |-> hdr, over |-> o, body |-> BodyPhrase(v),
                     aiRes |-> NoCall, record |-> NoRecord, atRes |-> NoStore, provCalls |-> provCalls[r] + 1,
                     storeCalls |-> storeCalls[r], res |-> ErrorRes(400, "Missing phrase")]
         /\ Release(r)
    ELSE /\ pc' = [pc EXCEPT ![r] = "provider"]
         /\ method' = [method EXCEPT ![r] = m]
         /\ origin' = [origin EXCEPT ![r] = org]
         /\ allowOrigin' = [allowOrigin EXCEPT ![r] = hdr]
         /\ phrase' = [phrase EXCEPT ![r] = v]
         /\ over' = [over EXCEPT ![r] = o]
         /\ provCalls' = [provCalls EXCEPT ![r] = @ + 1]
         /\ UNCHANGED <<aiRes, translation, record, storeCalls, sent>>

\* lines 64-70: the phrase check, then the provider fetch is issued
ValidateAndCall(r, m, org, hdr, o, v) ==
  IF InvalidPhrase(v)
    THEN Respond(r, m, org, hdr, o, BodyPhrase(v), NoCall, NoStore,
                 ErrorRes(400, "Missing phrase"))
    ELSE /\ pc' = [pc EXCEPT ![r] = "provider"]
         /\ method' = [method EXCEPT ![r] = m]
         /\ origin' = [origin EXCEPT ![r] = org]
         /\ allowOrigin' = [allowOrigin EXCEPT ![r] = hdr]
         /\ phrase' = [phrase EXCEPT ![r] = v]
         /\ over' = [over EXCEPT ![r] = o]
         /\ provCalls' = [provCalls EXCEPT ![r] = @ + 1]
         /\ UNCHANGED <<aiRes, translation, record, storeCalls, sent>>

\* a method check that lets GET through
MethodAllowed_PostOrGet(m) == m \in {"POST", "GET"}

\* line 41
MethodAllowed(m) == m = "POST"

\* a handler that never looks at aiRes.ok
ProviderFailed_Never(out) == FALSE

\* line 96
ProviderFailed(out) == ~out.ok

\* a handler that treats a preflight like any other method
Preflight_Never(m) == FALSE

\* line 29
Preflight(m) == m = "OPTIONS"

\* lines 24-70: a request arrives and runs up to its first await
Receive(r, m, org, xff, remote, body) ==
  /\ Quiet
  /\ pc[r] = "idle"
  /\ \A q \in Slot : q < r => pc[q] # "idle"
  /\ ~Preflight(m) => limitedRec(ClientIp(xff, remote)).count <= MaxCount
  /\ UNCHANGED <<now, env>>
  /\ LET b == IF body.t = "object" THEN BodyPhrase(body.phrase) ELSE BodyUnread
         hdr == AccessControlAllowOrigin(org)
     IN
     IF Preflight(m)
       THEN /\ Respond(r, m, org, hdr, FALSE, b, NoCall, NoStore, ErrorRes(204, ""))
            /\ UNCHANGED <<buckets, arrival, tally>>
       ELSE
         LET key == ClientIp(xff, remote)
             lim == limited(key)
         IN
         /\ buckets' = bucketsAfter(key)
         /\ tally' = tallyAfter(key)
         /\ arrival' = [xff |-> xff, remote |-> remote, key |-> key, at |-> now, had |-> key \in DOMAIN buckets,
                        before |-> IF key \in DOMAIN buckets THEN buckets[key] ELSE NoBucket,
                        after |-> limitedRec(key), over |-> lim]
         /\ IF lim
              THEN Respond(r, m, org, hdr, lim, b, NoCall, NoStore,
                     ErrorRes(429, "Too many requests. Please wait a minute and try again."))
              ELSE IF ~MethodAllowed(m)
              THEN Respond(r, m, org, hdr, lim, b, NoCall, NoStore,
                     ErrorRes(405, "Method not allowed. Use POST."))
              ELSE IF missing # {}
              THEN Respond(r, m, org, hdr, lim, b, NoCall, NoStore,
                     ErrorRes(500, "Missing env vars"))
              ELSE IF body.t = "object"
              THEN ValidateAndCall(r, m, org, hdr, lim, body.phrase)
              ELSE /\ pc' = [pc EXCEPT ![r] = "readBody"]
                   /\ method' = [method EXCEPT ![r] = m]
                   /\ origin' = [origin EXCEPT ![r] = org]
                   /\ allowOrigin' = [allowOrigin EXCEPT ![r] = hdr]
                   /\ over' = [over EXCEPT ![r] = lim]
                   /\ UNCHANGED <<phrase, aiRes, translation, record, provCalls, storeCalls, sent>>

\* lines 57-70: readBody settles; parse, validate, issue the provider fetch
BodyRead(r, rejected, raw) ==
  /\ Quiet
  /\ pc[r] = "readBody"
  /\ UNCHANGED <<now, env, buckets, arrival, tally>>
  /\ IF rejected \/ ParsePhrase(raw).threw
       THEN Respond(r, method[r], origin[r], allowOrigin[r], over[r], BodyUnparseable, NoCall, NoStore,
                    ErrorRes(400, "Invalid JSON body"))
       ELSE ValidateAndCall(r, method[r], origin[r], allowOrigin[r], over[r], ParsePhrase(raw).phrase)

\* a handler that issues the provider fetch once more when it failed the first time
ProviderReturns_Retry(r, out) ==
  /\ Quiet
  /\ pc[r] = "provider"
  /\ UNCHANGED <<now, env, buckets, arrival, tally>>
  /\ IF (out.kind = "throw" \/ ProviderFailed(out)) /\ provCalls[r] < 2
       THEN /\ provCalls' = [provCalls EXCEPT ![r] = @ + 1]
            /\ UNCHANGED <<pc, method, origin, allowOrigin, over, phrase, aiRes,
                           translation, record, storeCalls, sent>>
       ELSE IF out.kind = "throw"
       THEN Respond(r, method[r], origin[r], allowOrigin[r], over[r], BodyPhrase(phrase[r]),
                    out, NoStore, ErrorRes(500, "Server error"))
       ELSE IF ProviderFailed(out)
       THEN Respond(r, method[r], origin[r], allowOrigin[r], over[r], BodyPhrase(phrase[r]),
                    out, NoStore, ErrorRes(502, "OpenAI error"))
       ELSE
         LET tr == Translation(out.content) IN
         IF Falsy(tr)
           THEN Respond(r, method[r], origin[r], allowOrigin[r], over[r],
                        BodyPhrase(phrase[r]), out, NoStore,
                        ErrorRes(502, "OpenAI returned no translation"))
           ELSE /\ pc' = [pc EXCEPT ![r] = "store"]
                /\ aiRes' = [aiRes EXCEPT ![r] = out]
                /\ translation' = [translation EXCEPT ![r] = tr]
                /\ record' = [record EXCEPT ![r] = Row(r, tr)]
                /\ storeCalls' = [storeCalls EXCEPT ![r] = @ + 1]
                /\ UNCHANGED <<method, origin, allowOrigin, over, phrase, provCalls, sent>>

\* lines 96-130: the provider fetch settles; on a usable completion the store
\* fetch is issued with its record
ProviderReturns(r, out) ==
  /\ Quiet
  /\ pc[r] = "provider"
  /\ UNCHANGED <<now, env, buckets, arrival, tally>>
  /\ IF out.kind = "throw"
       THEN Respond(r, method[r], origin[r], allowOrigin[r], over[r], BodyPhrase(phrase[r]), out, NoStore,
                    ErrorRes(500, "Server error"))
       ELSE IF ProviderFailed(out)
       THEN Respond(r, method[r], origin[r], allowOrigin[r], over[r], BodyPhrase(phrase[r]), out, NoStore,
                    ErrorRes(502, "OpenAI error"))
       ELSE
         LET tr == Translation(out.content) IN
         IF Falsy(tr)
           THEN Respond(r, method[r], origin[r], allowOrigin[r], over[r], BodyPhrase(phrase[r]), out, NoStore,
                        ErrorRes(502, "OpenAI returned no translation"))
           ELSE /\ pc' = [pc EXCEPT ![r] = "store"]
                /\ aiRes' = [aiRes EXCEPT ![r] = out]
                /\ translation' = [translation EXCEPT ![r] = tr]
                /\ record' = [record EXCEPT ![r] = Row(r, tr)]
                /\ storeCalls' = [storeCalls EXCEPT ![r] = @ + 1]
                /\ UNCHANGED <<method, origin, allowOrigin, over, phrase, provCalls, sent>>

\* a store fetch left outside the try block: its rejection leaves the handler
\* and the invocation ends with no response written
StoreReturns_Escapes(r, out) ==
  /\ Quiet
  /\ pc[r] = "store"
  /\ UNCHANGED <<now, env, buckets, arrival, tally>>
  /\ IF out.kind = "throw"
       THEN Release(r) /\ UNCHANGED sent
       ELSE Respond(r, method[r], origin[r], allowOrigin[r], over[r], BodyPhrase(phrase[r]),
                    aiRes[r], out, OkRes(translation[r], out.ok))

\* lines 132-150: the store fetch settles
StoreReturns(r, out) ==
  /\ Quiet
  /\ pc[r] = "store"
  /\ UNCHANGED <<now, env, buckets, arrival, tally>>
  /\ IF out.kind = "throw"
       THEN Respond(r, method[r], origin[r], allowOrigin[r], over[r], BodyPhrase(phrase[r]), aiRes[r], out,
                    ErrorRes(500, "Server error"))
       ELSE Respond(r, method[r], origin[r], allowOrigin[r], over[r], BodyPhrase(phrase[r]), aiRes[r], out,
                    OkRes(translation[r], out.ok))

\* Date.now() moves on
Tick(d) ==
  /\ Quiet
  /\ now + d <= MaxNow
  /\ now' = now + d
  /\ UNCHANGED <<env, buckets, pc, locals, arrival, sent, tally>>

\* the response and the limiter's decision have been seen
Observe ==
  /\ ~Quiet
  /\ sent' = NoSent
  /\ arrival' = NoArrival
  /\ UNCHANGED <<now, env, buckets, pc, locals, tally>>

\* concurrent invocations; the requests carry no Origin header
Next ==
  \/ \E r \in Slot, q \in Requests, xff \in ForwardedFor, remote \in RemoteAddresses :
        Receive(r, q.method, NoOrigin, xff, remote, q.body)
  \/ \E r \in Slot, rejected \in BOOLEAN, raw \in RawBodies : BodyRead(r, rejected, raw)
  \/ \E r \in Slot, out \in ProviderOutcomes : ProviderReturns(r, out)
  \/ \E r \in Slot, out \in StoreOutcomes : StoreReturns(r, out)
  \/ \E d \in TickSteps : Tick(d)
  \/ Observe

Spec == Init /\ [][Next]_vars

\* one invocation at a time; the requests carry any Origin header
CorsNext ==
  \/ \E q \in Requests, org \in Origins, xff \in ForwardedFor, remote \in RemoteAddresses :
        Receive(1, q.method, org, xff, remote, q.body)
  \/ \E rejected \in BOOLEAN, raw \in RawBodies : BodyRead(1, rejected, raw)
  \/ \E out \in ProviderOutcomes : ProviderReturns(1, out)
  \/ \E out \in StoreOutcomes : StoreReturns(1, out)
  \/ \E d \in TickSteps : Tick(d)
  \/ Observe

CorsSpec == CorsInit /\ [][CorsNext]_vars

\* the requests of the liveness specification: a preflight, a GET, and POSTs with
\* a body still to be read (any raw text) or parsed with a valid phrase, all from
\* an unnamed client
LiveRequests ==
  {q \in Requests : q.body.t = "object" => q.body.phrase = Str(<<"x">>)}

LiveNext ==
  \/ \E r \in Slot, q \in LiveRequests : Receive(r, q.method, NoOrigin, <<>>, <<>>, q.body)
  \/ \E r \in Slot, rejected \in BOOLEAN, raw \in RawBodies : BodyRead(r, rejected, raw)
  \/ \E r \in Slot, out \in ProviderOutcomes : ProviderReturns(r, out)
  \/ \E r \in Slot, out \in StoreOutcomes : StoreReturns(r, out)
  \/ \E d \in TickSteps : Tick(d)
  \/ Observe

\* every outbound call under way eventually returns or throws, and the handler's
\* continuation then runs; a response written is eventually seen
Fairness ==
  /\ \A r \in Slot :
       /\ SF_vars(\E rejected \in BOOLEAN, raw \in RawBodies : BodyRead(r, rejected, raw))
       /\ SF_vars(\E out \in ProviderOutcomes : ProviderReturns(r, out))
       /\ SF_vars(\E out \in StoreOutcomes : StoreReturns(r, out))
  /\ WF_vars(Observe)

LiveSpec == Init /\ [][LiveNext]_vars /\ Fairness

TypeOK ==
  /\ now \in 0..MaxNow
  /\ \A k \in DOMAIN buckets : buckets[k].count \in 1..MaxCount
  /\ env \subseteq required \cup {"ALLOWED_ORIGIN"}
  /\ origin \in [Slot -> Origins]
  /\ allowOrigin \in [Slot -> {"", ConfiguredOrigin, DefaultOrigin}]
  /\ pc \in [Slot -> {"idle", "readBody", "provider", "store"}]
  /\ provCalls \in [Slot -> 0..1] /\ storeCalls \in [Slot -> 0..1]

\* ------------------------------------------------------ claim vocabulary
\* a response has just been written
Answered == sent # NoSent

\* every required setting is present
ConfigComplete == required \subseteq env

\* the phrase the request carried is a non-empty string
NonEmptyStringPhrase(b) == b.k = "phrase" /\ b.phrase.t = "string" /\ b.phrase.s # <<>>

\* the phrase the request carried is missing, empty or not a string
MissingEmptyOrNotString(b) ==
  b.k = "phrase" /\ (b.phrase.t # "string" \/ b.phrase.s = <<>>)

\* the provider call returned a success status with non-empty completion text
ProviderGaveText(ai) ==
  ai.kind = "response" /\ ai.ok /\ ai.content.t = "string" /\ Trim(ai.content.s) # <<>>

\* C1: an admitted POST with a non-empty string phrase and full configuration whose
\* provider call gave non-empty text is answered 200 with translation equal to the
\* trimmed completion and the store outcome present, whatever the store write did
\* (success, non-success status or a throw).
C1_StoreOutcomeNeverFatal ==
  (/\ Answered
   /\ sent.method = "POST" /\ ~sent.over /\ ConfigComplete
   /\ NonEmptyStringPhrase(sent.body)
   /\ ProviderGaveText(sent.aiRes))
  => /\ sent.res.status = 200
     /\ sent.res.translation = Str(Trim(sent.aiRes.content.s))
     /\ sent.res.airtable.present

\* C2: when the provider gave non-empty text and the store write returned a
\* status, the response is 200 with the translation and the model, and its
\* store flag ok is true exactly when that status was a success status; no
\* response carries ok = true otherwise.
C2_StoreFlagReflectsStatus ==
  /\ (Answered /\ ProviderGaveText(sent.aiRes) /\ sent.atRes.kind = "response")
       => /\ sent.res.status = 200
          /\ sent.res.translation = Str(Trim(sent.aiRes.content.s))
          /\ sent.res.model = MODEL
          /\ sent.res.airtable.present
          /\ sent.res.airtable.ok = sent.atRes.ok
  /\ (Answered /\ sent.res.airtable.present /\ sent.res.airtable.ok)
       => (sent.atRes.kind = "response" /\ sent.atRes.ok)

\* the store write failed with a status and the translation came back all the same
C2_Witness ==
  /\ Answered /\ ProviderGaveText(sent.aiRes)
  /\ sent.atRes.kind = "response" /\ ~sent.atRes.ok
  /\ sent.res.status = 200 /\ ~sent.res.airtable.ok

C4_NoUpstreamOnRejection ==
  (/\ Answered
   /\ \/ sent.res.status \in {400, 429, 405}
      \/ sent.res.status = 500 /\ sent.res.error = "Missing env vars")
  => /\ sent.provCalls = 0 /\ sent.storeCalls = 0
     /\ sent.aiRes = NoCall /\ sent.record = NoRecord /\ sent.atRes = NoStore

\* a request whose body had to be read from the stream is answered 400
C4_Witness ==
  /\ Answered /\ sent.res.status = 400 /\ sent.body.k = "phrase"
  /\ arrival = NoArrival /\ sent.provCalls = 0

\* C5: an admitted POST whose phrase is a string that is empty after trimming is
\* answered 400 and the provider is not called.
C5_BlankPhraseRejected ==
  (/\ Answered /\ sent.method = "POST" /\ ~sent.over /\ ConfigComplete
   /\ sent.body.k = "phrase" /\ sent.body.phrase.t = "string"
   /\ Trim(sent.body.phrase.s) = <<>>)
  => (sent.res.status = 400 /\ sent.provCalls = 0)

\* the limiter's decision just taken came with the response just written
Decided == arrival # NoArrival
SameRequest == Decided /\ Answered

\* C6 as stated: a request inside the window (before window start + W) is counted
\* in it and rejected from the (N+1)-th on; a request at or after window start + W
\* starts a new window.
C6_WindowEndsAtReset ==
  Decided =>
    IF arrival.had /\ arrival.at < arrival.before.reset
      THEN /\ arrival.after.count = arrival.before.count + 1
           /\ arrival.after.reset = arrival.before.reset
           /\ arrival.over = (arrival.before.count >= RATE_LIMIT_PER_MIN)
      ELSE /\ arrival.after.count = 1
           /\ arrival.after.reset = arrival.at + windowMs
           /\ arrival.over = (1 > RATE_LIMIT_PER_MIN)

\* C6 (amended): the window is closed on both ends: a request up to and including
\* window start + W is counted in it (the first N admitted, later ones answered
\* 429); only a request strictly later than window start + W starts a new window
\* with the count at 1.
C6_WindowEndsAfterReset ==
  /\ Decided =>
       IF arrival.had /\ arrival.at <= arrival.before.reset
         THEN /\ arrival.after.count = arrival.before.count + 1
              /\ arrival.after.reset = arrival.before.reset
              /\ arrival.over = (arrival.before.count >= RATE_LIMIT_PER_MIN)
         ELSE /\ arrival.after.count = 1
              /\ arrival.after.reset = arrival.at + windowMs
              /\ arrival.over = (1 > RATE_LIMIT_PER_MIN)
  /\ Decided => buckets[arrival.key] = arrival.after
  /\ SameRequest => (sent.res.status = 429) = arrival.over
  /\ (Answered /\ sent.res.status = 429) => SameRequest

\* a request at exactly window start + W is still over the limit
C6_Witness ==
  /\ SameRequest /\ arrival.had
  /\ arrival.at = arrival.before.reset
  /\ arrival.before.count >= RATE_LIMIT_PER_MIN
  /\ sent.res.status = 429

\* C7: when the provider call returns a non-success status the response is 502
\* and no store write is issued for that request.
C7_ProviderFailureIs502 ==
  (Answered /\ sent.aiRes.kind = "response" /\ ~sent.aiRes.ok)
    => /\ sent.res.status = 502
       /\ sent.storeCalls = 0 /\ sent.record = NoRecord /\ sent.atRes = NoStore

\* a provider error whose body nevertheless holds a completion
C7_Witness ==
  /\ Answered /\ sent.aiRes.kind = "response" /\ ~sent.aiRes.ok
  /\ sent.aiRes.content.t = "string"
  /\ sent.res.status = 502

\* rec is a record of the store made from the completion ai and the phrase p
RecordOf(rec, ai, p) ==
  /\ ProviderGaveText(ai)
  /\ rec.Translation = Str(Trim(ai.content.s))
  /\ rec.Translation.s # <<>>
  /\ rec.Phrase = p /\ rec.Model = MODEL /\ rec.Source = "webapp"

\* C8: every record written to the store belongs to exactly one request, whose
\* provider call returned a success status with non-empty trimmed text, and the
\* record's translation is that text (a request writes at most one record); a
\* request whose provider response holds no usable text is answered 502 and
\* writes no record.
C8_RecordsComeFromCompletions ==
  /\ \A r \in Slot :
       /\ storeCalls[r] <= 1
       /\ (storeCalls[r] = 1) = (pc[r] = "store")
       /\ (storeCalls[r] = 1) = (record[r] # NoRecord)
       /\ record[r] # NoRecord => RecordOf(record[r], aiRes[r], phrase[r])
  /\ Answered =>
       /\ sent.storeCalls <= 1
       /\ (sent.storeCalls = 1) = (sent.record # NoRecord)
       /\ sent.record # NoRecord => RecordOf(sent.record, sent.aiRes, sent.body.phrase)
  /\ (Answered /\ sent.aiRes.kind = "response" /\ sent.aiRes.ok /\ ~ProviderGaveText(sent.aiRes))
       => /\ sent.res.status = 502
          /\ sent.storeCalls = 0 /\ sent.record = NoRecord

\* a request given whitespace only gets 502 while another one's record is on its way
C8_Witness ==
  /\ \E r \in Slot : pc[r] = "store" /\ record[r].Translation = Str(<<"y">>)
  /\ Answered /\ sent.aiRes.kind = "response" /\ sent.aiRes.ok
  /\ sent.aiRes.content.t = "string" /\ sent.aiRes.content.s # <<>>
  /\ sent.res.status = 502

\* C9 as stated: with a required setting missing every POST is answered 500 and
\* no call to the provider or the store is made, whatever the bucket's state.
C9_MissingConfigAlways500 ==
  (Answered /\ ~ConfigComplete /\ sent.method = "POST")
    => /\ sent.res.status = 500
       /\ sent.provCalls = 0 /\ sent.storeCalls = 0

\* C9 (amended): with a required setting missing, every POST the rate limiter
\* admits is answered 500 and every POST over the limit 429 (the rate-limit check
\* runs first), for every body; no call to the provider or the store is ever made.
C9_MissingConfigAfterAdmission ==
  /\ (Answered /\ ~ConfigComplete /\ sent.method = "POST")
       => /\ sent.res.status = IF sent.over THEN 429 ELSE 500
          /\ sent.res.status = 500 => sent.res.error = "Missing env vars"
          /\ sent.provCalls = 0 /\ sent.storeCalls = 0
  /\ ~ConfigComplete => \A r \in Slot : pc[r] = "idle" /\ provCalls[r] = 0 /\ storeCalls[r] = 0

\* a valid POST is answered 500 although only the store's table id is missing
C9_Witness ==
  /\ env = required \ {"AIRTABLE_TABLE_ID"}
  /\ Answered /\ sent.method = "POST" /\ NonEmptyStringPhrase(sent.body)
  /\ sent.res.status = 500

\* C10 as stated: every request whose method is neither POST nor OPTIONS is
\* answered 405, whatever the bucket's state.
C10_OtherMethodAlways405 ==
  (Answered /\ sent.method \notin {"POST", "OPTIONS"}) => sent.res.status = 405

\* C10 (amended): a request whose method is neither POST nor OPTIONS is answered
\* 405 when the rate limiter admits it and 429 when its bucket is over the limit
\* (the rate-limit check runs before the method check).
C10_OtherMethodAfterAdmission ==
  (Answered /\ sent.method \notin {"POST", "OPTIONS"})
    => /\ sent.res.status = IF sent.over THEN 429 ELSE 405
       /\ sent.provCalls = 0 /\ sent.storeCalls = 0

\* a GET is answered 405
C10_Witness ==
  Answered /\ sent.method = "GET" /\ ~sent.over /\ sent.res.status = 405

\* C11: a step that answers an OPTIONS request answers it 204 (never 429), takes
\* no rate-limit decision and leaves every bucket as it was.
C11_PreflightUncounted ==
  [][(sent' # NoSent /\ sent'.method = "OPTIONS")
       => /\ sent'.res.status = 204
          /\ arrival' = NoArrival
          /\ buckets' = buckets]_vars

\* an OPTIONS request is answered 204 while every identifier is over the limit
C11_Witness ==
  /\ Answered /\ sent.method = "OPTIONS" /\ sent.res.status = 204
  /\ DOMAIN buckets = {unknown, <<"a">>}
  /\ \A k \in DOMAIN buckets : buckets[k].count > RATE_LIMIT_PER_MIN /\ now <= buckets[k].reset

\* C12: every response written (204, 200, 400, 405, 429, 500, 502) carries
\* Access-Control-Allow-Origin equal to the configured allowed origin, whatever
\* Origin the request was sent from, and so does every response still in the making.
C12_AllowOriginIsConfigured ==
  /\ Answered => sent.allowOrigin = ALLOWED_ORIGIN
  /\ \A r \in Slot : pc[r] # "idle" => allowOrigin[r] = ALLOWED_ORIGIN

\* a request from a foreign origin gets its translation under the configured origin
C12_Witness ==
  /\ "ALLOWED_ORIGIN" \in env
  /\ Answered /\ sent.origin = ForeignOrigin /\ sent.res.status = 200
  /\ sent.allowOrigin = ConfiguredOrigin

\* the request names no client: no x-forwarded-for value (no header, or a blank
\* first element) and no socket address
Undetermined(xff, remote) ==
  /\ xff = <<>> \/ \A i \in 1..Len(xff[1]) : xff[1][i] = " "
  /\ remote = <<>>

\* C13: every request whose client cannot be determined is counted in the one
\* bucket kept under 'unknown'; once N such requests are counted in its window,
\* the next such request is answered 429.
C13_UndeterminedShareFallback ==
  (Decided /\ Undetermined(arrival.xff, arrival.remote))
    => /\ arrival.key = unknown
       /\ buckets[unknown] = arrival.after
       /\ (arrival.had /\ arrival.at <= arrival.before.reset)
            => /\ arrival.after.count = arrival.before.count + 1
               /\ arrival.before.count >= RATE_LIMIT_PER_MIN
                    => (arrival.over /\ Answered /\ sent.res.status = 429)

\* a request with a blank forwarded-for header and no socket address is answered
\* 429 on the count of the fallback bucket
C13_Witness ==
  /\ SameRequest /\ arrival.xff = << <<" ">> >> /\ arrival.remote = <<>>
  /\ arrival.had /\ arrival.before.count = RATE_LIMIT_PER_MIN
  /\ arrival.key = unknown /\ sent.res.status = 429

\* C14: however the invocations interleave, no increment is lost (a bucket's count
\* is the number of requests of its identifier the limiter saw in the bucket's
\* window) and at most N requests of one identifier pass the limiter in one window.
C14_NoLostIncrement ==
  /\ DOMAIN tally = DOMAIN buckets
  /\ \A k \in DOMAIN buckets :
       /\ buckets[k].count = tally[k].seen
       /\ tally[k].passed <= RATE_LIMIT_PER_MIN

\* while an admitted invocation of the same identifier awaits an outbound call,
\* the next request of that identifier is counted and turned away
C14_Witness ==
  /\ now = 0 /\ DOMAIN buckets = {arrival.key}
  /\ \E r \in Slot : pc[r] \in {"readBody", "provider", "store"}
  /\ SameRequest /\ arrival.over /\ sent.res.status = 429
  /\ tally[arrival.key].seen = RATE_LIMIT_PER_MIN + 1
  /\ tally[arrival.key].passed = RATE_LIMIT_PER_MIN

\* the provider call of the response just written failed: it threw, returned a
\* non-success status, or returned no completion text
ProviderCallFailed(ai) ==
  \/ ai.kind = "throw"
  \/ ai.kind = "response" /\ ~ProviderGaveText(ai)

\* C15: an invocation calls the provider at most once and the store at most once;
\* the store call is issued only once the provider call has returned, so the two
\* are never under way together; after a failed provider call the request is
\* answered with that one call made and no store call.
C15_OneCallEachInOrder ==
  /\ \A r \in Slot :
       /\ provCalls[r] <= 1 /\ storeCalls[r] <= 1
       /\ pc[r] = "provider" => (provCalls[r] = 1 /\ storeCalls[r] = 0 /\ aiRes[r] = NoCall)
       /\ storeCalls[r] = 1 => (provCalls[r] = 1 /\ aiRes[r].kind = "response")
  /\ Answered =>
       /\ sent.provCalls <= 1 /\ sent.storeCalls <= 1
       /\ sent.storeCalls = 1 => (sent.provCalls = 1 /\ sent.aiRes.kind = "response")
       /\ sent.aiRes # NoCall => sent.provCalls = 1
       /\ ProviderCallFailed(sent.aiRes)
            => (sent.provCalls = 1 /\ sent.storeCalls = 0 /\ sent.atRes = NoStore
                /\ sent.res.status \in {500, 502})

\* a provider call that threw is answered 500 after that single call
C15_Witness ==
  /\ Answered /\ sent.aiRes.kind = "throw"
  /\ sent.provCalls = 1 /\ sent.storeCalls = 0 /\ sent.res.status = 500

\* the statuses a response can carry
TerminalStatuses == {204, 200, 400, 405, 429, 500, 502}

TakesInRequest ==
  \/ \E r \in Slot : pc[r] = "idle" /\ pc'[r] # "idle"
  \/ sent' # NoSent /\ sent'.method # "OPTIONS" /\ pc' = pc

\* C17: every step that takes in a non-OPTIONS request counts it once in the bucket
\* of its identifier (the count of the running window plus one, or 1 in a new
\* window), whatever it is answered (429, 405, 500, 400 at once; 400, 502, 500,
\* 200 later); no other step changes a bucket, so no outcome gives quota back or
\* takes more.
C17_EveryRequestCounted ==
  [][/\ TakesInRequest => arrival' # NoArrival
     /\ arrival' # NoArrival =>
          LET k == arrival'.key
              base == IF k \in DOMAIN buckets /\ now <= buckets[k].reset
                        THEN buckets[k].count ELSE 0
          IN  /\ TakesInRequest
              /\ k \in DOMAIN buckets'
              /\ buckets'[k].count = base + 1
     /\ arrival' = NoArrival => buckets' = buckets]_vars

\* a GET answered 405 has taken one unit of its caller's quota
C17_Witness ==
  /\ SameRequest /\ sent.method = "GET" /\ sent.res.status = 405
  /\ buckets[arrival.key].count = 1

\* C18: a request changes the reset time of its bucket only when it arrives after
\* that time has passed; a request answered 429 leaves it as it was; and the first
\* request to arrive after the reset time is admitted with the count back at 1 and
\* a new reset time one window ahead, however many requests were turned away before.
C18_RejectionsDoNotExtend ==
  (Decided /\ arrival.had) =>
    /\ buckets[arrival.key] = arrival.after
    /\ (arrival.after.reset # arrival.before.reset) = (arrival.at > arrival.before.reset)
    /\ arrival.over => arrival.after.reset = arrival.before.reset
    /\ arrival.at > arrival.before.reset =>
         /\ arrival.after = [count |-> 1, reset |-> arrival.at + windowMs]
         /\ ~arrival.over
         /\ Answered => sent.res.status # 429

\* a caller turned away in the last window is admitted on its first request after
\* the reset time
C18_Witness ==
  /\ Decided /\ arrival.had
  /\ arrival.before.count > RATE_LIMIT_PER_MIN
  /\ arrival.at > arrival.before.reset
  /\ arrival.after.count = 1 /\ ~arrival.over
  /\ \E r \in Slot : pc[r] = "provider"

\* C19: a step that counts a request of one identifier leaves the bucket of every
\* other identifier (count and reset time) as it was, and its verdict is a function
\* of the identifier's own bucket and the clock alone.
C19_OtherBucketsUntouched ==
  [][arrival' # NoArrival =>
       LET k == arrival'.key
           base == IF k \in DOMAIN buckets /\ now <= buckets[k].reset
                     THEN buckets[k].count ELSE 0
       IN  /\ DOMAIN buckets' = DOMAIN buckets \cup {k}
           /\ \A b \in DOMAIN buckets : b # k => buckets'[b] = buckets[b]
           /\ arrival'.over = (base + 1 > RATE_LIMIT_PER_MIN)]_vars

\* a named caller is admitted while the fallback bucket is over the limit, and
\* that bucket stays as it is
C19_Witness ==
  /\ Decided /\ arrival.key = <<"a">> /\ ~arrival.over /\ ~arrival.had
  /\ unknown \in DOMAIN buckets
  /\ buckets[unknown].count > RATE_LIMIT_PER_MIN /\ now <= buckets[unknown].reset

====
